---- MODULE Spec2Model ----
(***************************************************************************)
(* JobFinder: the discovery-and-apply pipeline.                            *)
(*                                                                         *)
(*   Spec      the Apply Orchestrator (AutoApply): concurrent              *)
(*             process_single_job tasks against the job_offer /            *)
(*             applications / cover_letters tables; each task's            *)
(*             fill_apply_form call is one step that ends in one of the    *)
(*             endings SpecFill shows the loop to have.                    *)
(*   SpecFill  process_single_job for one posting at a time, with the      *)
(*             convergence loop of FormFiller.fill_apply_form step by      *)
(*             step.                                                       *)
(*   SpecScan  one JobScraper.start_scraping call: the page probe and the  *)
(*             concurrently gathered scrape_page tasks.                    *)
(*   SpecAdd   process_buffer consumers calling                            *)
(*             JobOfferManager.add_job_offer on one database.              *)
(***************************************************************************)
EXTENDS Integers, Sequences, FiniteSets, Bags, TLC

\* ------------------------------------------------------------------ bounds
NumPostings == 2        \* rows of job_offer present when the orchestrator runs
MaxRuns == 2            \* orchestrator runs per behaviour
MaxConcurrentArg == 2   \* largest max_concurrent passed to process_job_offers
MaxPages == 3           \* largest number of result pages the site reports
MaxBrowsersArg == 2     \* largest max_browsers passed to JobScraper
MaxBuffered == 2        \* most items a buffer holds when SpecAdd starts
BufferSizeArg == 1      \* the small buffer_size passed to JobScraper

\* ------------------------------------------------------- program constants
max_attempts == 3            \* fill_apply_form: max_attempts = 3
DefaultMaxConcurrent == 3    \* process_job_offers(max_concurrent: int = 3)
DefaultMaxBrowsers == 5      \* JobScraper(max_browsers: int = 5)
DefaultBufferSize == 50      \* JobScraper(buffer_size: int = 50)

PostingIds == 1..NumPostings
User == 1                    \* AutoApply.user_id of the modelled orchestrator
OtherUser == 2               \* another row owner in the applications table
None == -1                   \* max_applications = None

\* JobOffer.external_id is a str taken from the page URL, JobOffer.id the
\* integer primary key: two disjoint domains.
ExternalIdOf(i) == <<"jobid", i>>

VARIABLES
    job_offer,        \* table job_offer: rows [id, external_id, quick_apply]
    applications,     \* table applications: bag of rows [user_id, job_id, application_status]
    cover_letters,    \* table cover_letters, per job_id, in insertion order
    orch_pc,          \* "idle" | "running": position of the orchestrator entry point
    entry,            \* which entry point is running
    max_concurrent,   \* argument of the running process_job_offers
    jobs_to_process,  \* process_job_offers: jobs_to_process (list of job ids)
    semaphore,        \* asyncio.Semaphore(max_concurrent): free permits
    task_pc,          \* position of each process_with_semaphore task
    result,           \* ApplicationResult.status of each task
    run,              \* number of orchestrator runs started
    processed,        \* per run (the last two), the job ids handed to process_single_job
    max_applications, \* argument of the running process_job_offers
    report,           \* value returned by the last entry point
    current_attempt,  \* fill_apply_form: current_attempt
    fill_outcome,     \* how the last fill_apply_form call of a task ended
    checks,           \* verify_all_fields calls made by the current attempt
    fills,            \* fill_missing_fields / fill_missing_files rounds of the attempt
    clicks,           \* click_submit_button clicks made by the current fill call
    last_recheck,     \* recheck of the current attempt: "none" | "missing" | "clean"
    login_failed,     \* check_and_handle_login returned False in the current attempt
    written,          \* applications rows written by each task of this run
    scan_pc,          \* per JobScraper: position of start_scraping
    max_browsers,     \* per JobScraper: self.max_browsers
    buffer_size,      \* per JobScraper: maxlen of self.job_buffer
    max_page,         \* per JobScraper: start_scraping's max_page
    scraped_pages,    \* per JobScraper: self.scraped_pages
    page_pc,          \* per JobScraper and page: position of the scrape_page task
    browsers_open,    \* per JobScraper: launched and not yet closed browsers
    job_buffer,       \* per JobScraper: self.job_buffer
    pb_pc,            \* per JobScraper: position of the process_buffer task
    pb_item,          \* per JobScraper: job_offer_data popped by process_buffer
    keywords,         \* KeywordScrapingScheduler.keywords
    running,          \* KeywordScrapingScheduler.running
    current_keyword_index, \* KeywordScrapingScheduler.current_keyword_index
    sched_pc,         \* position of KeywordScrapingScheduler.run
    stop_called,      \* stop() was called since this run() began executing
    early_stop,       \* stop() was called after create_task, before run() began
    cycles,           \* per cycle begun: its keyword and whether its apply step ran
    browser_cache,    \* table browser_cache: cache_data of this user's rows, in id order
    state_file,       \* content of cache_dir/state.json
    persist_pc,       \* per save_session call: its position
    zip_data,         \* per save_session call: save_cache_directory's zip_data
    cache_record,     \* per save_session call: row index found by the select, 0 for None
    apply_forms,      \* table apply_forms: rows [user_id, site_name, form_data], in id order
    last_form_data,   \* per user: the form_data of the last create_form_data call
    llm_pc,           \* per create_completion_async call: its position
    llm_attempt,      \* per call: `attempt` of `for attempt in range(max_retries)`
    creates,          \* per call: completions.create calls made
    llm_max_retries,  \* per call: its max_retries argument
    llm_lock,         \* LLMManager._lock: the caller holding it, or NoCaller
    current_provider, \* LLMManager._current_provider
    db,               \* the SQLite database of database/JobFinderDatabase.py
    db_writes,        \* INSERTs made
    disk,             \* the temp directory: per path, the filler whose bytes the file holds
    tmp               \* per filler: position, tempfiles, delete tries, locks seen

storeVars == <<job_offer, applications, cover_letters>>
orchVars == <<orch_pc, entry, max_concurrent, jobs_to_process, semaphore,
              task_pc, result, run, processed, max_applications, report>>
fillVars == <<current_attempt, fill_outcome, checks, fills, clicks,
              last_recheck, login_failed, written>>
applyVars == <<applications, cover_letters, orchVars, fillVars>>
scanVars == <<scan_pc, max_browsers, buffer_size, max_page, scraped_pages, page_pc,
              browsers_open, job_buffer, pb_pc, pb_item>>
schedVars == <<keywords, running, current_keyword_index, sched_pc,
               stop_called, early_stop, cycles>>
cacheVars == <<browser_cache, state_file, persist_pc, zip_data, cache_record>>
formVars == <<apply_forms, last_form_data>>
llmVars == <<llm_pc, llm_attempt, creates, llm_max_retries, llm_lock,
             current_provider>>
dbVars == <<db, db_writes>>
tempVars == <<disk, tmp>>
otherVars == <<schedVars, cacheVars, formVars, llmVars, dbVars,
               tempVars>>
vars == <<storeVars, orchVars, fillVars, scanVars, otherVars>>

\* ------------------------------------------------------------------ helpers
RECURSIVE SortedSeq(_)
\* rows come back from a select in primary-key order
SortedSeq(S) ==
    IF S = {} THEN <<>>
    ELSE LET m == CHOOSE x \in S : \A y \in S : x <= y
         IN <<m>> \o SortedSeq(S \ {m})

Range(s) == {s[i] : i \in 1..Len(s)}

Take(s, n) == IF n >= Len(s) THEN s ELSE SubSeq(s, 1, n)

\* ---------------------------------------------------------- JobOfferManager
\* select(JobOffer).where(JobOffer.quick_apply == True)
get_job_offers_by_quick_apply ==
    SortedSeq({r.id : r \in {x \in job_offer : x.quick_apply}})

\* session.get(JobOffer, id)
get_job_offer_by_id(key) == {r \in job_offer : r.id = key}

\* -------------------------------------------------------- ApplicationManager
\* The autoincrement primary key only tells rows apart: the table is the bag
\* of its (user_id, job_id, application_status) rows.
Row(u, j, status) == [user_id |-> u, job_id |-> j, application_status |-> status]

\* select(Application).where(user_id == u, job_id == j): number of rows
NumApplications(u, j) ==
    CopiesIn(Row(u, j, "Submitted"), applications)
    + CopiesIn(Row(u, j, "Failed"), applications)
    + CopiesIn(Row(u, j, "Error"), applications)

\* add_application: no lookup first, and the model declares no uniqueness
\* constraint on (user_id, job_id): the insert always succeeds
add_application(rows, u, j, status) == rows (+) SetToBag({Row(u, j, status)})

\* get_application_by_user_and_job ends in scalar_one_or_none(), which raises
\* MultipleResultsFound when the select returns more than one row
MultipleResultsFound(u, j) == NumApplications(u, j) > 1

\* ------------------------------------------------------------------ AutoApply
\* get_pending_quick_apply_jobs raises when the lookup of any quick_apply job
\* raises
PendingRaises ==
    \E j \in Range(get_job_offers_by_quick_apply) : MultipleResultsFound(User, j)

\* get_pending_quick_apply_jobs: the quick_apply jobs with no application row
\* of this user, in the order of get_job_offers_by_quick_apply
get_pending_quick_apply_jobs ==
    SelectSeq(get_job_offers_by_quick_apply,
              LAMBDA j : NumApplications(User, j) = 0)

\* processed keeps the job ids of the last two runs
Remember(S) ==
    LET s == Append(processed, S) IN IF Len(s) > 2 THEN Tail(s) ELSE s

Inside(j) == task_pc[j] \notin {"none", "waiting", "done"}
NumInside == Cardinality({j \in PostingIds : Inside(j)})

EmptySummary == [total |-> 0, successful |-> 0, failed |-> 0, errors |-> 0]
NoReport == [kind |-> "none"]

InitStore ==
    /\ job_offer \in {{[id |-> i, external_id |-> ExternalIdOf(i),
                          quick_apply |-> (i < NumPostings \/ q)] : i \in PostingIds}
                        : q \in BOOLEAN}
    /\ applications = SetToBag({Row(OtherUser, 1, "Submitted")})
    /\ cover_letters = [j \in PostingIds |-> <<>>]

InitOrchestrator ==
    /\ orch_pc = "idle"
    /\ entry = "none"
    /\ max_concurrent = DefaultMaxConcurrent
    /\ jobs_to_process = <<>>
    /\ semaphore = 0
    /\ task_pc = [j \in PostingIds |-> "none"]
    /\ result = [j \in PostingIds |-> "none"]
    /\ run = 0
    /\ processed = <<>>
    /\ max_applications = None
    /\ report = NoReport
    /\ current_attempt = [j \in PostingIds |-> 0]
    /\ fill_outcome = [j \in PostingIds |-> "none"]
    /\ checks = [j \in PostingIds |-> 0]
    /\ fills = [j \in PostingIds |-> 0]
    /\ clicks = [j \in PostingIds |-> 0]
    /\ last_recheck = [j \in PostingIds |-> "none"]
    /\ login_failed = [j \in PostingIds |-> FALSE]
    /\ written = [j \in PostingIds |-> 0]

\* ----------------------------------------------------------------- JobScraper
NumScrapers == 2             \* JobScraper instances sharing the database
Scrapers == 1..NumScrapers
Pages == 1..MaxPages
Probe == 0                   \* the browser of start_scraping's page-count probe
NoItem == <<>>

\* what the site shows on result page p: one posting, found again on no
\* other page
PageItems(p) == <<ExternalIdOf(p)>>

InitScraper ==
    /\ scan_pc = [s \in Scrapers |-> "idle"]
    /\ max_page = [s \in Scrapers |-> 0]
    /\ scraped_pages = [s \in Scrapers |-> {}]
    /\ page_pc = [s \in Scrapers |-> [p \in Pages |-> "none"]]
    /\ browsers_open = [s \in Scrapers |-> {}]
    /\ job_buffer = [s \in Scrapers |-> <<>>]
    /\ pb_pc = [s \in Scrapers |-> "none"]
    /\ pb_item = [s \in Scrapers |-> NoItem]

\* ------------------------------------------------- KeywordScrapingScheduler
NumKeywords == 2             \* keywords in the scheduler's list
MaxCycles == 4               \* cycles begun per behaviour

\* the keyword list the scheduler is built with
KeywordList == [i \in 1..NumKeywords |-> <<"keyword", i>>]

\* __init__ lines 23-31
InitScheduler ==
    /\ keywords = KeywordList
    /\ running = FALSE
    /\ current_keyword_index = 0
    /\ sched_pc = "none"
    /\ stop_called = FALSE
    /\ early_stop = FALSE
    /\ cycles = <<>>

\* ------------------------------------------------------------ BrowserSession
NumPersists == 3             \* save_session calls for the user per behaviour
Persists == 1..NumPersists
NoFile == 0                  \* state.json does not exist

\* no cache row, no state.json, no save_session call begun
InitCache ==
    /\ browser_cache = <<>>
    /\ state_file = NoFile
    /\ persist_pc = [t \in Persists |-> "none"]
    /\ zip_data = [t \in Persists |-> NoFile]
    /\ cache_record = [t \in Persists |-> 0]

\* ---------------------------------------------------------- ApplyFormManager
NumFormData == 2             \* different form_data values
MaxFormWrites == 4           \* create_form_data calls per behaviour
FormData == 1..NumFormData
NoForm == 0

\* no apply_forms row
InitForms ==
    /\ apply_forms = <<>>
    /\ last_form_data = [u \in {User, OtherUser} |-> NoForm]

\* ------------------------------------------------------------------ LLMManager
MaxRetriesArg == 2           \* largest max_retries passed to create_completion_async
Callers == PostingIds        \* the process_single_job tasks sharing one LLMManager
NoCaller == 0
Providers == {"openai", "groq"}
\* _switch_to_fallback lines 127-130: the first provider that is not the
\* current one
OtherProvider(p) == CHOOSE q \in Providers : q # p

\* LLMManager.__init__ lines 14-16
InitLLM ==
    /\ llm_pc = [c \in Callers |-> "none"]
    /\ llm_attempt = [c \in Callers |-> 0]
    /\ creates = [c \in Callers |-> 0]
    /\ llm_max_retries = [c \in Callers |-> 0]
    /\ llm_lock = NoCaller
    /\ current_provider = "openai"

\* ------------------------------------------------- database/JobFinderDatabase
MaxDbWrites == 4             \* INSERTs per behaviour
NoLetter == 0                \* cover_letter_id IS NULL
\* the tables whose only reference to users is user_id ... ON DELETE CASCADE
\* and that no other table references
LeafTables == {"user_documents", "saved_jobs", "user_site_credentials",
               "user_job_preferences"}

\* both users registered and the job offers created; no dependent row yet.
\* Of each row the model keeps its id, its user_id and the columns that
\* reference a table a user's deletion reaches; of a leaf table it keeps the
\* number of rows per user_id
InitDb ==
    /\ db = [users |-> {User, OtherUser},
             job_offers |-> PostingIds,
             leaf |-> [t \in LeafTables |-> [u \in {User, OtherUser} |-> 0]],
             cover_letters |-> {},
             cover_letter_seq |-> 0,
             user_applications |-> {},
             user_application_seq |-> 0]
    /\ db_writes = 0

\* ------------------------------------------------ FormFiller temporary files
NumFillers == 2              \* fill_apply_form calls of one user under way
Fillers == 1..NumFillers
cleanup_max_attempts == 3    \* safe_file_cleanup(temp_file, max_attempts=3, ...)
Absent == 0                  \* no file at the path
\* upload_bytes_to_field lines 470-471: the path is tempfile.gettempdir() /
\* filename. The CV's filename is the sanitized name of the user's document,
\* the same in every call of that user; the letter's carries the company
CvPath == <<"cv", 0>>
LetterPath(t) == <<"motivation", t>>
\* fill_apply_form lines 536-569: the CV, then the cover letter
files_to_upload(t) == <<CvPath, LetterPath(t)>>
TempPaths == {CvPath} \cup {LetterPath(t) : t \in Fillers}

\* no attempt begun, nothing in the temp directory
InitTemp ==
    /\ disk = [p \in TempPaths |-> Absent]
    /\ tmp = [t \in Fillers |->
                [pc |-> "none", tempfiles |-> <<>>, tries |-> [p \in TempPaths |-> 0],
                 locked |-> {}]]

Init ==
    /\ InitStore
    /\ InitOrchestrator
    /\ InitScraper
    /\ InitScheduler
    /\ InitCache
    /\ InitForms
    /\ InitTemp
    /\ InitDb
    /\ InitLLM
    /\ max_browsers = [s \in Scrapers |-> DefaultMaxBrowsers]
    /\ buffer_size = [s \in Scrapers |-> DefaultBufferSize]

\* ------------------------------------------------ AutoApply.process_job_offers
ResetTasks(jobs) ==
    /\ task_pc' = [j \in PostingIds |-> IF j \in Range(jobs) THEN "waiting" ELSE "none"]
    /\ result' = [j \in PostingIds |-> "none"]
    /\ current_attempt' = [j \in PostingIds |-> 0]
    /\ fill_outcome' = [j \in PostingIds |-> "none"]
    /\ checks' = [j \in PostingIds |-> 0]
    /\ fills' = [j \in PostingIds |-> 0]
    /\ clicks' = [j \in PostingIds |-> 0]
    /\ last_recheck' = [j \in PostingIds |-> "none"]
    /\ login_failed' = [j \in PostingIds |-> FALSE]
    /\ written' = [j \in PostingIds |-> 0]

\* jobs_to_process[:max_applications] when max_applications is not None
Capped(jobs, ma) == IF ma # None THEN Take(jobs, ma) ELSE jobs

Report(kind, status, total, pending, summary) ==
    [kind |-> kind, status |-> status, total_quick_apply |-> total,
     already_applied |-> total - pending, pending |-> pending,
     summary |-> summary]

\* process_job_offers, lines 122-150: the pending jobs become one
\* process_with_semaphore task each, all created before gather runs any
process_job_offers_start(ma, mc) ==
    /\ orch_pc = "idle"
    /\ run < MaxRuns
    /\ ~PendingRaises
    /\ Capped(get_pending_quick_apply_jobs, ma) # <<>>
    /\ orch_pc' = "running"
    /\ entry' = "process_job_offers"
    /\ max_concurrent' = mc
    /\ jobs_to_process' = Capped(get_pending_quick_apply_jobs, ma)
    /\ semaphore' = mc
    /\ ResetTasks(Capped(get_pending_quick_apply_jobs, ma))
    /\ run' = run + 1
    /\ processed' = Remember(Range(Capped(get_pending_quick_apply_jobs, ma)))
    /\ max_applications' = ma
    /\ report' = NoReport
    /\ UNCHANGED <<storeVars, scanVars, otherVars>>

\* process_job_offers, lines 128-139: nothing to process
process_job_offers_empty(ma) ==
    /\ orch_pc = "idle"
    /\ run < MaxRuns
    /\ ~PendingRaises
    /\ Capped(get_pending_quick_apply_jobs, ma) = <<>>
    /\ run' = run + 1
    /\ processed' = Remember({})
    /\ jobs_to_process' = <<>>
    /\ entry' = "process_job_offers"
    /\ report' = Report("process_job_offers", "completed", 0, 0, EmptySummary)
    /\ UNCHANGED <<storeVars, orch_pc, max_concurrent, max_applications,
                   semaphore, task_pc, result, fillVars, scanVars, otherVars>>

\* process_job_offers, line 123: get_pending_quick_apply_jobs raises and
\* nothing in process_job_offers catches it
process_job_offers_raise ==
    /\ orch_pc = "idle"
    /\ run < MaxRuns
    /\ PendingRaises
    /\ run' = run + 1
    /\ processed' = Remember({})
    /\ jobs_to_process' = <<>>
    /\ entry' = "process_job_offers"
    /\ report' = Report("process_job_offers", "raised", 0, 0, EmptySummary)
    /\ UNCHANGED <<storeVars, orch_pc, max_concurrent, max_applications,
                   semaphore, task_pc, result, fillVars, scanVars, otherVars>>

\* --------------------------------- AutoApply.check_and_process_pending_jobs
\* lines 196-211: counts, then process_job_offers() with its defaults
check_and_process_start ==
    /\ orch_pc = "idle"
    /\ run < MaxRuns
    /\ ~PendingRaises
    /\ get_pending_quick_apply_jobs # <<>>
    /\ orch_pc' = "running"
    /\ entry' = "check_and_process_pending_jobs"
    /\ max_concurrent' = DefaultMaxConcurrent
    /\ jobs_to_process' = get_pending_quick_apply_jobs
    /\ semaphore' = DefaultMaxConcurrent
    /\ ResetTasks(get_pending_quick_apply_jobs)
    /\ run' = run + 1
    /\ report' = Report("check_and_process_pending_jobs", "running",
                        Len(get_job_offers_by_quick_apply),
                        Len(get_pending_quick_apply_jobs), EmptySummary)
    /\ processed' = Remember(Range(get_pending_quick_apply_jobs))
    /\ max_applications' = None
    /\ UNCHANGED <<storeVars, scanVars, otherVars>>

\* lines 212-229: no pending job
check_and_process_empty ==
    /\ orch_pc = "idle"
    /\ run < MaxRuns
    /\ ~PendingRaises
    /\ get_pending_quick_apply_jobs = <<>>
    /\ run' = run + 1
    /\ processed' = Remember({})
    /\ jobs_to_process' = <<>>
    /\ entry' = "check_and_process_pending_jobs"
    /\ report' = Report("check_and_process_pending_jobs", "completed",
                        Len(get_job_offers_by_quick_apply), 0, EmptySummary)
    /\ UNCHANGED <<storeVars, orch_pc, max_concurrent, max_applications,
                   semaphore, task_pc, result, fillVars, scanVars, otherVars>>

\* lines 231-247: any exception, here the one of get_pending_quick_apply_jobs,
\* is swallowed and reported as all-zero counts with one error
check_and_process_error ==
    /\ orch_pc = "idle"
    /\ run < MaxRuns
    /\ PendingRaises
    /\ run' = run + 1
    /\ processed' = Remember({})
    /\ jobs_to_process' = <<>>
    /\ entry' = "check_and_process_pending_jobs"
    /\ report' = Report("check_and_process_pending_jobs", "error", 0, 0,
                        [EmptySummary EXCEPT !.errors = 1])
    /\ UNCHANGED <<storeVars, orch_pc, max_concurrent, max_applications,
                   semaphore, task_pc, result, fillVars, scanVars, otherVars>>

\* ---------------------------------------------- process_with_semaphore(job)
\* asyncio.Semaphore wakes its waiters in FIFO order: the tasks enter in the
\* order of jobs_to_process
FirstWaiting(j) ==
    \E i \in 1..Len(jobs_to_process) :
        /\ jobs_to_process[i] = j
        /\ task_pc[j] = "waiting"
        /\ \A k \in 1..(i - 1) : task_pc[jobs_to_process[k]] # "waiting"

\* acquire as it would be if the task entered without waiting for a permit
acquire_unbounded(j) ==
    /\ orch_pc = "running"
    /\ FirstWaiting(j)
    /\ semaphore' = semaphore - 1
    /\ task_pc' = [task_pc EXCEPT ![j] = "generate"]
    /\ result' = [result EXCEPT ![j] = "Started"]
    /\ UNCHANGED <<storeVars, orch_pc, entry, max_concurrent, jobs_to_process,
                   run, processed, max_applications, report, fillVars, scanVars, otherVars>>

\* async with semaphore: ... process_single_job lines 56-61
acquire(j) ==
    /\ orch_pc = "running"
    /\ FirstWaiting(j)
    /\ semaphore > 0
    /\ semaphore' = semaphore - 1
    /\ task_pc' = [task_pc EXCEPT ![j] = "generate"]
    /\ result' = [result EXCEPT ![j] = "Started"]
    /\ UNCHANGED <<storeVars, orch_pc, entry, max_concurrent, jobs_to_process,
                   run, processed, max_applications, report, fillVars, scanVars, otherVars>>

\* process_single_job returns `status`: the task ends and the semaphore is
\* released on leaving the async with block
Return(j, status) ==
    /\ result' = [result EXCEPT ![j] = status]
    /\ task_pc' = [task_pc EXCEPT ![j] = "done"]
    /\ semaphore' = semaphore + 1
    /\ UNCHANGED <<orch_pc, entry, max_concurrent, jobs_to_process, run,
                   processed, max_applications, report, scanVars, otherVars>>

\* the task moves on inside process_single_job
Goto(j, pc) ==
    /\ task_pc' = [task_pc EXCEPT ![j] = pc]
    /\ UNCHANGED <<orch_pc, entry, max_concurrent, jobs_to_process, semaphore,
                   result, run, processed, max_applications, report, scanVars, otherVars>>

\* ------------------------------------------------ process_single_job 66-84
\* generate_cover_letter saved a new cover_letters row for (user, job)
generate_cover_letter_ok(j) ==
    /\ task_pc[j] = "generate"
    /\ cover_letters' = [cover_letters EXCEPT
                           ![j] = Append(@, [run |-> run, pdf_data |-> 0])]
    /\ Goto(j, "pdf")
    /\ UNCHANGED <<job_offer, applications, fillVars>>

\* generate_cover_letter returned None (lines 71-74)
generate_cover_letter_none(j) ==
    /\ task_pc[j] = "generate"
    /\ Return(j, "Failed")
    /\ UNCHANGED <<storeVars, fillVars>>

\* step_raises as it would be without the outer `except Exception` of
\* process_single_job: the exception object becomes the task's result
step_raises_uncaught(j) ==
    /\ task_pc[j] \in {"generate", "pdf", "add_application"}
    /\ Return(j, "Exception")
    /\ UNCHANGED <<storeVars, fillVars>>

\* an exception escaped a step of process_single_job (lines 110-115)
step_raises(j) ==
    /\ task_pc[j] \in {"generate", "pdf", "add_application"}
    /\ Return(j, "Error")
    /\ UNCHANGED <<storeVars, fillVars>>

\* generate_cover_letter_pdf: get_cover_letter_by_user_and_job_id(user, job)
\* with number = 1 is the FIRST row of the pair; add_pdf_to_cover_letter
\* stores the rendering of that row's text on that row
generate_cover_letter_pdf_ok(j) ==
    /\ task_pc[j] = "pdf"
    /\ cover_letters[j] # <<>>
    /\ cover_letters' = [cover_letters EXCEPT
                           ![j][1].pdf_data = cover_letters[j][1].run]
    /\ Goto(j, "fill_prelude")
    /\ UNCHANGED <<job_offer, applications, fillVars>>

\* generate_cover_letter_pdf returned (False, message) (lines 81-84)
generate_cover_letter_pdf_fail(j) ==
    /\ task_pc[j] = "pdf"
    /\ Return(j, "Failed")
    /\ UNCHANGED <<storeVars, fillVars>>

\* ------------------------------------------- FormFiller.fill_apply_form
\* The ways a fill_apply_form call ends. It RETURNS on the expired marker, on
\* the already-submitted marker, after the submit click, and when the loop
\* runs out of attempts; it RAISES before the loop and on an exception in the
\* last attempt.
FillEndings == {"expired", "already_sent", "submitted", "exhausted",
                "raised", "prelude_raised"}
FillReturns(e) == e \in {"expired", "already_sent", "submitted", "exhausted"}

\* process_single_job lines 86-99 around one whole fill_apply_form call: the
\* already-submitted branch (lines 597-608) writes its row inside the call;
\* a raised exception becomes Failed (lines 89-92). What the call leaves
\* behind is its effect on the tables and on the task; fill_outcome belongs
\* to the step-by-step loop
fill_apply_form(j, ending) ==
    /\ task_pc[j] = "fill_prelude"
    /\ IF ending = "already_sent"
       THEN /\ applications' = add_application(applications, User, j, "Submitted")
            /\ written' = [written EXCEPT ![j] = @ + 1]
       ELSE UNCHANGED <<applications, written>>
    /\ IF FillReturns(ending)
       THEN Goto(j, "add_application")
       ELSE Return(j, "Failed")
    /\ UNCHANGED <<job_offer, cover_letters, current_attempt, fill_outcome,
                   checks, fills, clicks, last_recheck, login_failed>>

\* lines 506-577: the form, the documents and the cover letter are loaded and
\* the browsing context is opened; then the loop starts
fill_prelude_ok(j) ==
    /\ task_pc[j] = "fill_prelude"
    /\ Goto(j, "fill_loop")
    /\ UNCHANGED <<storeVars, fillVars>>

\* lines 509-510: "No form found for this user." or another exception before
\* the loop: process_single_job lines 89-92 turn it into Failed
fill_prelude_raises(j) ==
    /\ task_pc[j] = "fill_prelude"
    /\ fill_outcome' = [fill_outcome EXCEPT ![j] = "prelude_raised"]
    /\ Return(j, "Failed")
    /\ UNCHANGED <<storeVars, current_attempt, checks, fills, clicks,
                   last_recheck, login_failed, written>>

\* EnterAttempt as it would be with `while current_attempt <= max_attempts`
EnterAttempt_offbyone(j) ==
    /\ task_pc[j] = "fill_loop"
    /\ current_attempt[j] <= max_attempts
    /\ current_attempt' = [current_attempt EXCEPT ![j] = @ + 1]
    /\ checks' = [checks EXCEPT ![j] = 0]
    /\ fills' = [fills EXCEPT ![j] = 0]
    /\ last_recheck' = [last_recheck EXCEPT ![j] = "none"]

\* lines 579-582: one more turn of `while current_attempt < max_attempts`
EnterAttempt(j) ==
    /\ task_pc[j] = "fill_loop"
    /\ current_attempt[j] < max_attempts
    /\ current_attempt' = [current_attempt EXCEPT ![j] = @ + 1]
    /\ checks' = [checks EXCEPT ![j] = 0]
    /\ fills' = [fills EXCEPT ![j] = 0]
    /\ last_recheck' = [last_recheck EXCEPT ![j] = "none"]

\* lines 644-647: an exception inside an attempt is re-raised on the last
\* attempt, and process_single_job lines 89-92 turn it into Failed; before
\* that the loop goes on
Handler(j, attempt) ==
    IF attempt >= max_attempts
    THEN /\ fill_outcome' = [fill_outcome EXCEPT ![j] = "raised"]
         /\ Return(j, "Failed")
    ELSE /\ fill_outcome' = fill_outcome
         /\ Goto(j, "fill_loop")

\* lines 588-595: the expired marker. delete_job_offer and delete_cover_letter
\* are coroutine functions called WITHOUT await: the coroutine objects are
\* dropped and their bodies never run, so no row is deleted; fill_apply_form
\* returns normally
fill_expired(j) ==
    /\ EnterAttempt(j)
    /\ login_failed' = [login_failed EXCEPT ![j] = FALSE]
    /\ fill_outcome' = [fill_outcome EXCEPT ![j] = "expired"]
    /\ Goto(j, "add_application")
    /\ UNCHANGED <<storeVars, clicks, written>>

\* fill_already_sent as it would be if the marker were only logged and the
\* attempt went on to the field check
fill_already_sent_ignored(j) ==
    /\ EnterAttempt(j)
    /\ login_failed' = [login_failed EXCEPT ![j] = FALSE]
    /\ fill_outcome' = [fill_outcome EXCEPT ![j] = "already_sent"]
    /\ Goto(j, "fill_check")
    /\ UNCHANGED <<storeVars, clicks, written>>

\* lines 597-608: the already-submitted marker
fill_already_sent(j) ==
    /\ EnterAttempt(j)
    /\ login_failed' = [login_failed EXCEPT ![j] = FALSE]
    /\ applications' = add_application(applications, User, j, "Submitted")
    /\ written' = [written EXCEPT ![j] = @ + 1]
    /\ fill_outcome' = [fill_outcome EXCEPT ![j] = "already_sent"]
    /\ Goto(j, "add_application")
    /\ UNCHANGED <<job_offer, cover_letters, clicks>>

\* lines 610-613: check_and_handle_login returned False: `continue`
fill_login_failed(j) ==
    /\ EnterAttempt(j)
    /\ login_failed' = [login_failed EXCEPT ![j] = TRUE]
    /\ Goto(j, "fill_loop")
    /\ UNCHANGED <<storeVars, fill_outcome, clicks, written>>

\* line 585: page.goto raises
fill_goto_raises(j) ==
    /\ EnterAttempt(j)
    /\ login_failed' = [login_failed EXCEPT ![j] = FALSE]
    /\ Handler(j, current_attempt[j] + 1)
    /\ UNCHANGED <<storeVars, clicks, written>>

\* lines 585-617: the form page is open, no marker, session valid
fill_form_open(j) ==
    /\ EnterAttempt(j)
    /\ login_failed' = [login_failed EXCEPT ![j] = FALSE]
    /\ Goto(j, "fill_check")
    /\ UNCHANGED <<storeVars, fill_outcome, clicks, written>>

\* lines 619-629: verify_all_fields, then fill what it reported missing
fill_check_and_fill(j, missing) ==
    /\ task_pc[j] = "fill_check"
    /\ checks' = [checks EXCEPT ![j] = @ + 1]
    /\ fills' = [fills EXCEPT ![j] = IF missing THEN @ + 1 ELSE @]
    /\ Goto(j, "fill_recheck")
    /\ UNCHANGED <<storeVars, current_attempt, fill_outcome, clicks,
                   last_recheck, login_failed, written>>

\* lines 631-633 and 648-651: the recheck; with something still missing the
\* attempt falls through to the finally block and the loop goes on
fill_recheck(j, clean) ==
    /\ task_pc[j] = "fill_recheck"
    /\ checks' = [checks EXCEPT ![j] = @ + 1]
    /\ last_recheck' = [last_recheck EXCEPT ![j] = IF clean THEN "clean" ELSE "missing"]
    /\ Goto(j, IF clean THEN "fill_submit" ELSE "fill_loop")
    /\ UNCHANGED <<storeVars, current_attempt, fill_outcome, fills, clicks,
                   login_failed, written>>

\* lines 634-642: click_submit_button, wait for network idle, break
fill_submit(j) ==
    /\ task_pc[j] = "fill_submit"
    /\ clicks' = [clicks EXCEPT ![j] = @ + 1]
    /\ fill_outcome' = [fill_outcome EXCEPT ![j] = "submitted"]
    /\ Goto(j, "add_application")
    /\ UNCHANGED <<storeVars, current_attempt, checks, fills, last_recheck,
                   login_failed, written>>

\* line 636: the click went through and wait_for_load_state("networkidle")
\* timed out
fill_submit_wait_raises(j) ==
    /\ task_pc[j] = "fill_submit"
    /\ clicks' = [clicks EXCEPT ![j] = @ + 1]
    /\ Handler(j, current_attempt[j])
    /\ UNCHANGED <<storeVars, current_attempt, checks, fills, last_recheck,
                   login_failed, written>>

\* lines 619-635: verify_all_fields, fill_missing_files or click_submit_button
\* raises
fill_step_raises(j) ==
    /\ task_pc[j] \in {"fill_check", "fill_recheck", "fill_submit"}
    /\ Handler(j, current_attempt[j])
    /\ UNCHANGED <<storeVars, current_attempt, checks, fills, clicks,
                   last_recheck, login_failed, written>>

\* the loop condition fails after max_attempts turns: fill_apply_form falls
\* off its end and returns None without raising
fill_exhausted(j) ==
    /\ task_pc[j] = "fill_loop"
    /\ current_attempt[j] >= max_attempts
    /\ fill_outcome' = [fill_outcome EXCEPT ![j] = "exhausted"]
    /\ Goto(j, "add_application")
    /\ UNCHANGED <<storeVars, current_attempt, checks, fills, clicks,
                   last_recheck, login_failed, written>>

\* ----------------------------------------------- process_single_job 100-108
\* fill_apply_form returned without raising, whatever happened inside
add_application_submitted(j) ==
    /\ task_pc[j] = "add_application"
    /\ applications' = add_application(applications, User, j, "Submitted")
    /\ written' = [written EXCEPT ![j] = @ + 1]
    /\ Return(j, "Success")
    /\ UNCHANGED <<job_offer, cover_letters, current_attempt, fill_outcome,
                   checks, fills, clicks, last_recheck, login_failed>>

\* ------------------------------------------- process_job_offers 150-182
CountStatus(S) ==
    Cardinality({j \in Range(jobs_to_process) : result[j] \in S})

\* lines 161-169: a result that is an exception object counts as an error;
\* an ApplicationResult counts as successful or, whatever else its status, as
\* failed
Summary ==
    [total |-> Len(jobs_to_process),
     successful |-> CountStatus({"Success"}),
     failed |-> CountStatus({"Failed", "Error", "Started"}),
     errors |-> CountStatus({"Exception"})]

\* lines 150-182: the summary is returned; the tasks, their results and the
\* arguments of the call are gone with the call's frame
finish_run ==
    /\ orch_pc = "running"
    /\ \A j \in Range(jobs_to_process) : task_pc[j] = "done"
    /\ orch_pc' = "idle"
    /\ report' = IF entry = "process_job_offers"
                 THEN Report(entry, "completed", 0, 0, Summary)
                 ELSE [report EXCEPT !.status = "completed", !.summary = Summary]
    /\ ResetTasks(<<>>)
    /\ jobs_to_process' = <<>>
    /\ semaphore' = 0
    /\ max_concurrent' = DefaultMaxConcurrent
    /\ max_applications' = None
    /\ UNCHANGED <<storeVars, entry, run, processed, scanVars, otherVars>>

MaxApplicationsArgs == {None} \cup (1..(NumPostings - 1))

\* the steps of process_single_job outside fill_apply_form
TaskStep(j) ==
    \/ acquire(j)
    \/ generate_cover_letter_ok(j)
    \/ generate_cover_letter_none(j)
    \/ generate_cover_letter_pdf_ok(j)
    \/ generate_cover_letter_pdf_fail(j)
    \/ step_raises(j)
    \/ add_application_submitted(j)

Next ==
    \/ \E ma \in MaxApplicationsArgs, mc \in 1..MaxConcurrentArg :
           process_job_offers_start(ma, mc)
    \/ \E ma \in MaxApplicationsArgs : process_job_offers_empty(ma)
    \/ process_job_offers_raise
    \/ check_and_process_start
    \/ check_and_process_empty
    \/ check_and_process_error
    \/ finish_run
    \/ \E j \in PostingIds : TaskStep(j)
    \/ \E j \in PostingIds, ending \in FillEndings : fill_apply_form(j, ending)

Spec == Init /\ [][Next]_vars

\* one posting per run, the fill loop step by step
NextFill ==
    \/ process_job_offers_start(1, 1)
    \/ finish_run
    \/ \E j \in PostingIds : TaskStep(j)
    \/ \E j \in PostingIds : fill_prelude_ok(j)
    \/ \E j \in PostingIds : fill_prelude_raises(j)
    \/ \E j \in PostingIds : fill_expired(j)
    \/ \E j \in PostingIds : fill_already_sent(j)
    \/ \E j \in PostingIds : fill_login_failed(j)
    \/ \E j \in PostingIds : fill_goto_raises(j)
    \/ \E j \in PostingIds : fill_form_open(j)
    \/ \E j \in PostingIds, missing \in BOOLEAN : fill_check_and_fill(j, missing)
    \/ \E j \in PostingIds, clean \in BOOLEAN : fill_recheck(j, clean)
    \/ \E j \in PostingIds : fill_submit(j)
    \/ \E j \in PostingIds : fill_submit_wait_raises(j)
    \/ \E j \in PostingIds : fill_step_raises(j)
    \/ \E j \in PostingIds : fill_exhausted(j)

SpecFill == Init /\ [][NextFill]_vars

\* --------------------------------------------------- JobScraper.start_scraping
\* get_job_offer_by_external_id
get_job_offer_by_external_id(e) == {r \in job_offer : r.external_id = e}

\* deque(maxlen = size).extend: what overflows is dropped from the left
ExtendDeque(buf, items, size) ==
    LET all == buf \o items
    IN IF Len(all) > size
       THEN SubSeq(all, Len(all) - size + 1, Len(all))
       ELSE all

\* process_buffer holds buffer_lock from its `async with` until the inner
\* `while self.job_buffer` loop finds the buffer empty
BufferLocked(s) == pb_pc[s] \in {"check", "insert"}

\* lines 284-297: the process_buffer task is created and the probe browser
\* launched
start_scraping_begin(s) ==
    /\ scan_pc[s] = "idle"
    /\ scan_pc' = [scan_pc EXCEPT ![s] = "probe"]
    /\ pb_pc' = [pb_pc EXCEPT ![s] = "idle"]
    /\ browsers_open' = [browsers_open EXCEPT ![s] = @ \cup {Probe}]
    /\ UNCHANGED <<job_offer, applyVars, otherVars, max_browsers, buffer_size, max_page, scraped_pages,
                   page_pc, job_buffer, pb_item>>

\* lines 299-329: the probe read max_page (mp) and closed its browser; one
\* scrape_page coroutine is created per page not yet in scraped_pages.
\* self.max_browsers is not consulted.
start_scraping_pages(s, mp) ==
    /\ scan_pc[s] = "probe"
    /\ scan_pc' = [scan_pc EXCEPT ![s] = "gather"]
    /\ max_page' = [max_page EXCEPT ![s] = mp]
    /\ browsers_open' = [browsers_open EXCEPT ![s] = @ \ {Probe}]
    /\ scraped_pages' = [scraped_pages EXCEPT ![s] = @ \cup (1..mp)]
    /\ page_pc' = [page_pc EXCEPT ![s] =
                     [p \in Pages |-> IF p \in (1..mp) \ scraped_pages[s]
                                      THEN "created" ELSE @[p]]]
    /\ UNCHANGED <<job_offer, applyVars, otherVars, max_browsers, buffer_size, job_buffer, pb_pc, pb_item>>

\* scrape_page lines 105-107: asyncio.gather starts every coroutine at once,
\* and goes on running them after one of them has raised
scrape_page_launch(s, p) ==
    /\ scan_pc[s] \in {"gather", "raised"}
    /\ page_pc[s][p] = "created"
    /\ page_pc' = [page_pc EXCEPT ![s][p] = "open"]
    /\ browsers_open' = [browsers_open EXCEPT ![s] = @ \cup {p}]
    /\ UNCHANGED <<job_offer, applyVars, otherVars, scan_pc, max_browsers, buffer_size, max_page,
                   scraped_pages, job_buffer, pb_pc, pb_item>>

\* scrape_page lines 112-259: the page's postings are collected and, once
\* buffer_lock is free, appended to the buffer
scrape_page_ok(s, p) ==
    /\ page_pc[s][p] = "open"
    /\ ~BufferLocked(s)
    /\ job_buffer' = [job_buffer EXCEPT ![s] = ExtendDeque(@, PageItems(p), buffer_size[s])]
    /\ page_pc' = [page_pc EXCEPT ![s][p] = "buffered"]
    /\ UNCHANGED <<job_offer, applyVars, otherVars, scan_pc, max_browsers, buffer_size, max_page,
                   scraped_pages, browsers_open, pb_pc, pb_item>>

\* scrape_page lines 105-107: chromium.launch raises; the lines are outside
\* the try block, so the scrape_page task ends with the exception
scrape_page_launch_raises(s, p) ==
    /\ scan_pc[s] \in {"gather", "raised"}
    /\ page_pc[s][p] = "created"
    /\ page_pc' = [page_pc EXCEPT ![s][p] = "raised"]
    /\ UNCHANGED <<job_offer, applyVars, otherVars, scan_pc, max_browsers,
                   buffer_size, max_page, scraped_pages, browsers_open,
                   job_buffer, pb_pc, pb_item>>

\* line 331: asyncio.gather(*tasks) without return_exceptions re-raises the
\* first exception of a task; start_scraping does not catch it and ends
\* before its cleanup
start_scraping_raises(s) ==
    /\ scan_pc[s] = "gather"
    /\ \E p \in Pages : page_pc[s][p] = "raised"
    /\ scan_pc' = [scan_pc EXCEPT ![s] = "raised"]
    /\ UNCHANGED <<job_offer, applyVars, otherVars, max_browsers, buffer_size,
                   max_page, scraped_pages, page_pc, browsers_open, job_buffer,
                   pb_pc, pb_item>>

\* scrape_page lines 261-262: navigation or the results-container wait failed
scrape_page_error(s, p) ==
    /\ page_pc[s][p] = "open"
    /\ page_pc' = [page_pc EXCEPT ![s][p] = "errored"]
    /\ UNCHANGED <<job_offer, applyVars, otherVars, scan_pc, max_browsers, buffer_size, max_page,
                   scraped_pages, browsers_open, job_buffer, pb_pc, pb_item>>

\* scrape_page lines 263-265
scrape_page_close(s, p) ==
    /\ page_pc[s][p] \in {"buffered", "errored"}
    /\ page_pc' = [page_pc EXCEPT ![s][p] =
                     IF @ = "buffered" THEN "closed" ELSE "closed_empty"]
    /\ browsers_open' = [browsers_open EXCEPT ![s] = @ \ {p}]
    /\ UNCHANGED <<job_offer, applyVars, otherVars, scan_pc, max_browsers, buffer_size, max_page,
                   scraped_pages, job_buffer, pb_pc, pb_item>>

\* lines 331-335: gather returned
start_scraping_return(s) ==
    /\ scan_pc[s] = "gather"
    /\ \A p \in Pages : page_pc[s][p] \in {"none", "closed", "closed_empty"}
    /\ scan_pc' = [scan_pc EXCEPT ![s] = "returned"]
    /\ UNCHANGED <<job_offer, applyVars, otherVars, max_browsers, buffer_size, max_page, scraped_pages,
                   page_pc, browsers_open, job_buffer, pb_pc, pb_item>>

\* --------------------------------------------------- JobScraper.process_buffer
\* the inner loop of process_buffer after an add_job_offer call returned: the
\* next item is popped under the same lock, or the lock is released
NextItem(s) ==
    IF job_buffer[s] # <<>>
    THEN /\ pb_item' = [pb_item EXCEPT ![s] = Head(job_buffer[s])]
         /\ job_buffer' = [job_buffer EXCEPT ![s] = Tail(@)]
         /\ pb_pc' = [pb_pc EXCEPT ![s] = "check"]
    ELSE /\ pb_item' = [pb_item EXCEPT ![s] = NoItem]
         /\ job_buffer' = job_buffer
         /\ pb_pc' = [pb_pc EXCEPT ![s] = "idle"]

\* lines 96-100: the lock is taken and the first item popped
process_buffer_pop(s) ==
    /\ pb_pc[s] = "idle"
    /\ job_buffer[s] # <<>>
    /\ NextItem(s)
    /\ UNCHANGED <<job_offer, applyVars, otherVars, scan_pc, max_browsers, buffer_size, max_page,
                   scraped_pages, page_pc, browsers_open>>

\* add_job_offer lines 28-32: the lookup; an existing row is returned
add_job_offer_check(s) ==
    /\ pb_pc[s] = "check"
    /\ IF get_job_offer_by_external_id(pb_item[s]) # {}
       THEN NextItem(s)
       ELSE /\ pb_pc' = [pb_pc EXCEPT ![s] = "insert"]
            /\ UNCHANGED <<pb_item, job_buffer>>
    /\ UNCHANGED <<job_offer, applyVars, otherVars, scan_pc, max_browsers, buffer_size, max_page,
                   scraped_pages, page_pc, browsers_open>>

\* add_job_offer lines 35-38: the insert. external_id is declared
\* unique=True: when the row has appeared since the lookup, commit raises
\* IntegrityError, which nothing in add_job_offer or process_buffer catches,
\* and the process_buffer task ends with it
add_job_offer_insert(s) ==
    /\ pb_pc[s] = "insert"
    /\ IF get_job_offer_by_external_id(pb_item[s]) # {}
       THEN /\ pb_pc' = [pb_pc EXCEPT ![s] = "dead"]
            /\ UNCHANGED <<job_offer, pb_item, job_buffer>>
       ELSE /\ job_offer' = job_offer \cup
                  {[id |-> Cardinality(job_offer) + 1,
                    external_id |-> pb_item[s], quick_apply |-> TRUE]}
            /\ NextItem(s)
    /\ UNCHANGED <<applyVars, otherVars, scan_pc, max_browsers, buffer_size, max_page, scraped_pages,
                   page_pc, browsers_open>>

KnownOffer == [id |-> 1, external_id |-> ExternalIdOf(1), quick_apply |-> TRUE]

\* one start_scraping call of one JobScraper on a database that is empty or
\* already holds the posting of page 1
InitScan ==
    /\ job_offer \in {{}, {KnownOffer}}
    /\ applications = EmptyBag
    /\ cover_letters = [j \in PostingIds |-> <<>>]
    /\ InitOrchestrator
    /\ InitScraper
    /\ InitScheduler
    /\ InitCache
    /\ InitForms
    /\ InitTemp
    /\ InitDb
    /\ InitLLM
    /\ max_browsers \in {[s \in Scrapers |-> IF s = 1 THEN n ELSE DefaultMaxBrowsers]
                           : n \in 1..MaxBrowsersArg}
    /\ buffer_size \in {[s \in Scrapers |-> IF s = 1 THEN n ELSE DefaultBufferSize]
                          : n \in {BufferSizeArg, DefaultBufferSize}}

NextScan ==
    \/ start_scraping_begin(1)
    \/ \E mp \in Pages : start_scraping_pages(1, mp)
    \/ \E p \in Pages : scrape_page_launch(1, p)
    \/ \E p \in Pages : scrape_page_launch_raises(1, p)
    \/ start_scraping_raises(1)
    \/ \E p \in Pages : scrape_page_ok(1, p)
    \/ \E p \in Pages : scrape_page_error(1, p)
    \/ \E p \in Pages : scrape_page_close(1, p)
    \/ start_scraping_return(1)
    \/ process_buffer_pop(1)
    \/ add_job_offer_check(1)
    \/ add_job_offer_insert(1)

SpecScan == InitScan /\ [][NextScan]_vars

\* every task of the scan that can take a step eventually takes it
SpecScanFair == InitScan /\ [][NextScan]_vars /\ WF_vars(NextScan)

\* the process_buffer tasks of two JobScraper instances on one database, each
\* with what its scrape_page tasks left in its buffer
BufferContents ==
    UNION {[1..n -> {ExternalIdOf(i) : i \in 1..2}] : n \in 0..MaxBuffered}

InitAdd ==
    /\ job_offer \in {{}, {KnownOffer}}
    /\ applications = EmptyBag
    /\ cover_letters = [j \in PostingIds |-> <<>>]
    /\ InitOrchestrator
    /\ InitScheduler
    /\ InitCache
    /\ InitForms
    /\ InitTemp
    /\ InitDb
    /\ InitLLM
    /\ scan_pc = [s \in Scrapers |-> "returned"]
    /\ max_browsers = [s \in Scrapers |-> DefaultMaxBrowsers]
    /\ buffer_size = [s \in Scrapers |-> DefaultBufferSize]
    /\ max_page = [s \in Scrapers |-> 0]
    /\ scraped_pages = [s \in Scrapers |-> {}]
    /\ page_pc = [s \in Scrapers |-> [p \in Pages |-> "none"]]
    /\ browsers_open = [s \in Scrapers |-> {}]
    /\ job_buffer \in [Scrapers -> BufferContents]
    /\ pb_pc = [s \in Scrapers |-> "idle"]
    /\ pb_item = [s \in Scrapers |-> NoItem]

NextAdd ==
    \/ \E s \in Scrapers : process_buffer_pop(s)
    \/ \E s \in Scrapers : add_job_offer_check(s)
    \/ \E s \in Scrapers : add_job_offer_insert(s)

SpecAdd == InitAdd /\ [][NextAdd]_vars

\* ----------------------------------------------- KeywordScrapingScheduler.run
notSchedVars == <<storeVars, orchVars, fillVars, scanVars, cacheVars, formVars,
                  llmVars, dbVars, tempVars>>

\* keyword_menu.py line 381: asyncio.create_task(self._scheduler.run()); the
\* task is scheduled (again, after an earlier run() returned), run() has not
\* executed a statement yet
create_task ==
    /\ sched_pc \in {"none", "returned"}
    /\ sched_pc' = "created"
    /\ stop_called' = FALSE
    /\ early_stop' = FALSE
    /\ UNCHANGED <<keywords, running, current_keyword_index, cycles,
                   notSchedVars>>

\* line 40: run() starts executing
run_begin ==
    /\ sched_pc = "created"
    /\ running' = TRUE
    /\ sched_pc' = "loop"
    /\ UNCHANGED <<keywords, current_keyword_index, stop_called, early_stop,
                   cycles, notSchedVars>>

\* lines 44-45: the index wraps to the start of the list
WrappedIndex ==
    IF current_keyword_index >= Len(keywords) THEN 0 ELSE current_keyword_index

\* lines 41-51: `while self.running` holds; the keyword at the (wrapped) index
\* is taken and start_scraping_for_keyword is awaited
cycle_begin ==
    /\ sched_pc = "loop"
    /\ running
    /\ keywords # <<>>
    /\ Len(cycles) < MaxCycles
    /\ current_keyword_index' = WrappedIndex
    /\ cycles' = Append(cycles, [keyword |-> keywords[WrappedIndex + 1],
                                 applied |-> FALSE])
    /\ sched_pc' = "scraping"
    /\ UNCHANGED <<keywords, running, stop_called, early_stop, notSchedVars>>

\* lines 44-47 and 61-62 with an empty list: keywords[0] raises IndexError,
\* which the cycle's `except Exception` logs
cycle_raises ==
    /\ sched_pc = "loop"
    /\ running
    /\ keywords = <<>>
    /\ current_keyword_index' = WrappedIndex
    /\ sched_pc' = "after"
    /\ UNCHANGED <<keywords, running, stop_called, early_stop, cycles, notSchedVars>>

\* line 41: `while self.running` fails and run() returns
run_return ==
    /\ sched_pc = "loop"
    /\ ~running
    /\ sched_pc' = "returned"
    /\ UNCHANGED <<keywords, running, current_keyword_index, stop_called,
                   early_stop, cycles, notSchedVars>>

\* lines 51-57: start_scraping_for_keyword returned (it catches every
\* exception, lines 87-88) and self.running still holds:
\* check_and_process_pending_jobs is awaited
scraping_done_running ==
    /\ sched_pc = "scraping"
    /\ running
    /\ sched_pc' = "apply"
    /\ UNCHANGED <<keywords, running, current_keyword_index, stop_called,
                   early_stop, cycles, notSchedVars>>

\* scraping_done_stopped as it would be with the increment of line 59 under
\* `if self.running`
scraping_done_stopped_noadvance ==
    /\ sched_pc = "scraping"
    /\ ~running
    /\ sched_pc' = "after"
    /\ UNCHANGED <<keywords, running, current_keyword_index, stop_called,
                   early_stop, cycles, notSchedVars>>

\* lines 51-59: start_scraping_for_keyword returned and self.running is False:
\* the apply step is skipped, the index moves on
scraping_done_stopped ==
    /\ sched_pc = "scraping"
    /\ ~running
    /\ current_keyword_index' = current_keyword_index + 1
    /\ sched_pc' = "after"
    /\ UNCHANGED <<keywords, running, stop_called, early_stop, cycles, notSchedVars>>

\* lines 57-59: check_and_process_pending_jobs returned (it catches every
\* exception, auto_apply.py lines 231-247); the index moves on
apply_done ==
    /\ sched_pc = "apply"
    /\ cycles' = [cycles EXCEPT ![Len(cycles)].applied = TRUE]
    /\ current_keyword_index' = current_keyword_index + 1
    /\ sched_pc' = "after"
    /\ UNCHANGED <<keywords, running, stop_called, early_stop, notSchedVars>>

\* lines 65-67: asyncio.sleep(interval_seconds) if still running
sleep_begin ==
    /\ sched_pc = "after"
    /\ running
    /\ sched_pc' = "sleep"
    /\ UNCHANGED <<keywords, running, current_keyword_index, stop_called,
                   early_stop, cycles, notSchedVars>>

\* line 65: not running, no sleep
sleep_skipped ==
    /\ sched_pc = "after"
    /\ ~running
    /\ sched_pc' = "loop"
    /\ UNCHANGED <<keywords, running, current_keyword_index, stop_called,
                   early_stop, cycles, notSchedVars>>

\* line 67: the sleep is over
sleep_end ==
    /\ sched_pc = "sleep"
    /\ sched_pc' = "loop"
    /\ UNCHANGED <<keywords, running, current_keyword_index, stop_called,
                   early_stop, cycles, notSchedVars>>

\* stop() as it would be if it only logged
stop_ignored ==
    /\ stop_called' = (stop_called \/ sched_pc \notin {"none", "created", "returned"})
    /\ early_stop' = (early_stop \/ sched_pc = "created")
    /\ UNCHANGED <<keywords, running, current_keyword_index, sched_pc, cycles,
                   notSchedVars>>

\* stop(), lines 90-95, called from another task at any await of run() or
\* outside run()
stop ==
    /\ running' = FALSE
    /\ stop_called' = (stop_called \/ sched_pc \notin {"none", "created", "returned"})
    /\ early_stop' = (early_stop \/ sched_pc = "created")
    /\ UNCHANGED <<keywords, current_keyword_index, sched_pc, cycles,
                   notSchedVars>>

\* the steps of run() itself
RunStep ==
    \/ cycle_begin
    \/ cycle_raises
    \/ run_return
    \/ scraping_done_running
    \/ scraping_done_stopped
    \/ apply_done
    \/ sleep_begin
    \/ sleep_skipped
    \/ sleep_end

\* a scheduler built with the keyword list or with an empty one
InitSched ==
    /\ InitStore
    /\ InitOrchestrator
    /\ InitScraper
    /\ max_browsers = [s \in Scrapers |-> DefaultMaxBrowsers]
    /\ buffer_size = [s \in Scrapers |-> DefaultBufferSize]
    /\ InitCache
    /\ InitForms
    /\ InitTemp
    /\ InitDb
    /\ InitLLM
    /\ keywords \in {KeywordList, <<>>}
    /\ running = FALSE
    /\ current_keyword_index = 0
    /\ sched_pc = "none"
    /\ stop_called = FALSE
    /\ early_stop = FALSE
    /\ cycles = <<>>

NextSched ==
    \/ create_task
    \/ run_begin
    \/ stop
    \/ RunStep

SpecSched == InitSched /\ [][NextSched]_vars

\* every await of run() returns: the scan's gather and the orchestrator call
\* return, the sleep ends
SpecSchedFair == InitSched /\ [][NextSched]_vars /\ WF_vars(RunStep)

\* ------------------------------------------------ BrowserSession.save_session
notCacheVars == <<storeVars, orchVars, fillVars, scanVars, schedVars, formVars,
                  llmVars, dbVars, tempVars>>

\* login.py line 90: context.storage_state(path = cache_dir/state.json) of
\* save_session call t writes that context's state over the file
storage_state(t) ==
    /\ persist_pc[t] = "none"
    /\ state_file' = t
    /\ persist_pc' = [persist_pc EXCEPT ![t] = "compress"]
    /\ UNCHANGED <<browser_cache, zip_data, cache_record, notCacheVars>>

\* select(BrowserCache).where(user_id == user).scalar_one_or_none(): the row
\* (its index), 0 for None; more than one row raises MultipleResultsFound
SelectRaises == Len(browser_cache) > 1

\* save_cache_directory lines 78-90: the directory as it is now is compressed
\* in memory (no await), then the select is awaited and returns
compress_and_select(t) ==
    /\ persist_pc[t] = "compress"
    /\ ~SelectRaises
    /\ zip_data' = [zip_data EXCEPT ![t] = state_file]
    /\ cache_record' = [cache_record EXCEPT ![t] = Len(browser_cache)]
    /\ persist_pc' = [persist_pc EXCEPT ![t] = "commit"]
    /\ UNCHANGED <<browser_cache, state_file, notCacheVars>>

\* lines 90 and 108-110: the select raises, save_cache_directory logs and
\* returns None, save_session returns False
select_raises(t) ==
    /\ persist_pc[t] = "compress"
    /\ SelectRaises
    /\ zip_data' = [zip_data EXCEPT ![t] = state_file]
    /\ persist_pc' = [persist_pc EXCEPT ![t] = "failed"]
    /\ UNCHANGED <<browser_cache, state_file, cache_record, notCacheVars>>

\* lines 92-106: the found row gets the new cache_data, or, when the select
\* found none, a new row is inserted; commit. The table declares no
\* uniqueness on user_id.
commit_cache(t) ==
    /\ persist_pc[t] = "commit"
    /\ browser_cache' = IF cache_record[t] = 0
                        THEN Append(browser_cache, zip_data[t])
                        ELSE [browser_cache EXCEPT ![cache_record[t]] = zip_data[t]]
    /\ persist_pc' = [persist_pc EXCEPT ![t] = "saved"]
    /\ UNCHANGED <<state_file, zip_data, cache_record, notCacheVars>>

\* lines 102-103 and 108-110: the commit raises; save_cache_directory logs and
\* returns None, save_session returns False. state.json stays as written
commit_raises(t) ==
    /\ persist_pc[t] = "commit"
    /\ persist_pc' = [persist_pc EXCEPT ![t] = "failed"]
    /\ UNCHANGED <<browser_cache, state_file, zip_data, cache_record,
                   notCacheVars>>

\* get_browser_context, login.py lines 72-76: the new context is loaded with
\* cache_dir/state.json when the file exists and starts empty otherwise; the
\* browser_cache table is not read (restore_session is called by
\* launch_browser_session only)
get_browser_context == state_file

\* a user who may already have a cache row and a state.json from an earlier
\* session (snapshot NumPersists + 1)
InitPersist ==
    /\ InitStore
    /\ InitOrchestrator
    /\ InitScraper
    /\ InitScheduler
    /\ InitForms
    /\ InitTemp
    /\ InitDb
    /\ InitLLM
    /\ max_browsers = [s \in Scrapers |-> DefaultMaxBrowsers]
    /\ buffer_size = [s \in Scrapers |-> DefaultBufferSize]
    /\ \E old \in BOOLEAN :
         /\ browser_cache = IF old THEN <<NumPersists + 1>> ELSE <<>>
         /\ state_file = IF old THEN NumPersists + 1 ELSE NoFile
    /\ persist_pc = [t \in Persists |-> "none"]
    /\ zip_data = [t \in Persists |-> NoFile]
    /\ cache_record = [t \in Persists |-> 0]

NextPersist ==
    \/ \E t \in Persists : storage_state(t)
    \/ \E t \in Persists : compress_and_select(t)
    \/ \E t \in Persists : select_raises(t)
    \/ \E t \in Persists : commit_cache(t)
    \/ \E t \in Persists : commit_raises(t)

SpecPersist == InitPersist /\ [][NextPersist]_vars

\* ------------------------------------------------ FormFiller.create_form_data
notFormVars == <<storeVars, orchVars, fillVars, scanVars, schedVars, cacheVars,
                  llmVars, dbVars, tempVars>>

FormRow(u, d) == [user_id |-> u, site_name |-> "JobUp", form_data |-> d]

\* add_apply_form: a new row, whatever the table holds
add_apply_form(rows, u, d) == Append(rows, FormRow(u, d))

\* form_filler.py lines 286-303: create_form_data builds the dict and adds it
create_form_data(u, d) ==
    /\ Len(apply_forms) < MaxFormWrites
    /\ apply_forms' = add_apply_form(apply_forms, u, d)
    /\ last_form_data' = [last_form_data EXCEPT ![u] = d]
    /\ UNCHANGED notFormVars

\* the rows select(ApplicationForm).where(user_id == u, site_name == "JobUp")
\* returns
FormsOf(u) ==
    SelectSeq(apply_forms, LAMBDA r : r.user_id = u /\ r.site_name = "JobUp")

\* get_apply_form_by_user_and_site: scalar_one_or_none() of those rows raises
\* MultipleResultsFound when there is more than one
GetFormRaises(u) == Len(FormsOf(u)) > 1

\* get_apply_form_by_user_and_site when it returns: None or the one row
get_apply_form_by_user_and_site(u) ==
    IF FormsOf(u) = <<>> THEN NoForm ELSE FormsOf(u)[1].form_data

NextForm ==
    \E u \in {User, OtherUser}, d \in FormData : create_form_data(u, d)

SpecForm == Init /\ [][NextForm]_vars

\* ------------------------------------------ LLMManager.create_completion_async
notLLMVars == <<storeVars, orchVars, fillVars, scanVars, schedVars, cacheVars,
                formVars, dbVars, tempVars>>

\* the call begins: `for attempt in range(max_retries)` with max_retries >= 1
create_completion_async(c, mr) ==
    /\ llm_pc[c] = "none"
    /\ llm_pc' = [llm_pc EXCEPT ![c] = "lock"]
    /\ llm_max_retries' = [llm_max_retries EXCEPT ![c] = mr]
    /\ UNCHANGED <<llm_attempt, creates, llm_lock, current_provider,
                   notLLMVars>>

\* `async with self._lock` of an attempt (line 104), and the one inside
\* _switch_to_fallback (line 126): asyncio.Lock is not reentrant, the caller
\* waits until nobody holds the lock, itself included. With the lock taken in
\* _switch_to_fallback the provider is changed, the lock released, and the
\* loop goes to its next attempt
acquire_lock(c) ==
    /\ llm_pc[c] \in {"lock", "switch"}
    /\ llm_lock = NoCaller
    /\ IF llm_pc[c] = "lock"
       THEN /\ llm_lock' = c
            /\ llm_pc' = [llm_pc EXCEPT ![c] = "create"]
            /\ creates' = [creates EXCEPT ![c] = @ + 1]
            /\ UNCHANGED <<llm_attempt, current_provider>>
       ELSE /\ current_provider' = OtherProvider(current_provider)
            /\ llm_attempt' = [llm_attempt EXCEPT ![c] = @ + 1]
            /\ llm_pc' = [llm_pc EXCEPT ![c] = "lock"]
            /\ UNCHANGED <<llm_lock, creates>>
    /\ UNCHANGED <<llm_max_retries, notLLMVars>>

\* lines 110-115: client.chat.completions.create returned; the result is
\* returned and the lock released on the way out
create_ok(c) ==
    /\ llm_pc[c] = "create"
    /\ llm_lock' = NoCaller
    /\ llm_pc' = [llm_pc EXCEPT ![c] = "returned"]
    /\ UNCHANGED <<llm_attempt, creates, llm_max_retries, current_provider,
                   notLLMVars>>

\* lines 117-122: the attempt raised. Before the last attempt
\* _switch_to_fallback is awaited INSIDE the `async with self._lock` block,
\* the lock still held by this caller; on the last attempt the exception is
\* re-raised and the lock released on the way out
create_raises(c) ==
    /\ llm_pc[c] = "create"
    /\ IF llm_attempt[c] < llm_max_retries[c] - 1
       THEN /\ llm_pc' = [llm_pc EXCEPT ![c] = "switch"]
            /\ llm_lock' = llm_lock
       ELSE /\ llm_pc' = [llm_pc EXCEPT ![c] = "raised"]
            /\ llm_lock' = NoCaller
    /\ UNCHANGED <<llm_attempt, creates, llm_max_retries, current_provider,
                   notLLMVars>>

NextLLM ==
    \/ \E c \in Callers, mr \in 1..MaxRetriesArg : create_completion_async(c, mr)
    \/ \E c \in Callers : acquire_lock(c)
    \/ \E c \in Callers : create_ok(c)
    \/ \E c \in Callers : create_raises(c)

SpecLLM == Init /\ [][NextLLM]_vars

\* every caller that can take a step eventually takes one
SpecLLMFair == Init /\ [][NextLLM]_vars /\ WF_vars(NextLLM)

\* ------------------------------------------------- database/JobFinderDatabase
notDbVars == <<storeVars, orchVars, fillVars, scanVars, schedVars, cacheVars,
               formVars, llmVars, tempVars>>

\* UserDocument.create, SavedJob.create, UserSiteCredentials.create,
\* UserJobPreference.create: with foreign keys enforced (execute_query line
\* 18) the INSERT needs the user's row
leaf_create(t, u) ==
    /\ db_writes < MaxDbWrites
    /\ u \in db.users
    /\ db' = [db EXCEPT !.leaf[t][u] = @ + 1]
    /\ db_writes' = db_writes + 1
    /\ UNCHANGED notDbVars

\* CoverLetter.create (lines 288-295): AUTOINCREMENT gives a fresh id
cover_letter_create(u) ==
    /\ db_writes < MaxDbWrites
    /\ u \in db.users
    /\ db' = [db EXCEPT
                !.cover_letters = @ \cup {[id |-> db.cover_letter_seq + 1,
                                           user_id |-> u]},
                !.cover_letter_seq = @ + 1]
    /\ db_writes' = db_writes + 1
    /\ UNCHANGED notDbVars

\* UserApplication.create (lines 583-589): cover_letter_id is None or the id
\* of an existing cover_letters row, whoever owns it
user_application_create(u, cl) ==
    /\ db_writes < MaxDbWrites
    /\ u \in db.users
    /\ cl = NoLetter \/ cl \in {r.id : r \in db.cover_letters}
    /\ db' = [db EXCEPT
                !.user_applications =
                    @ \cup {[id |-> db.user_application_seq + 1,
                             user_id |-> u, cover_letter_id |-> cl]},
                !.user_application_seq = @ + 1]
    /\ db_writes' = db_writes + 1
    /\ UNCHANGED notDbVars

\* User.delete as it would be without PRAGMA foreign_keys = ON in
\* execute_query: SQLite then ignores the ON DELETE clauses
delete_without_foreign_keys(u) ==
    /\ u \in db.users
    /\ db' = [db EXCEPT !.users = @ \ {u}]
    /\ UNCHANGED <<db_writes, notDbVars>>

\* User.delete (lines 123-129) through execute_query (lines 16-31): the
\* DELETE runs with foreign keys enforced. ON DELETE CASCADE removes the
\* user's rows of every table; ON DELETE SET NULL (line 578) clears
\* cover_letter_id in the applications that referenced a removed letter
delete(u) ==
    /\ u \in db.users
    /\ LET gone == {r.id : r \in {x \in db.cover_letters : x.user_id = u}}
       IN db' = [db EXCEPT
                   !.users = @ \ {u},
                   !.leaf = [t \in LeafTables |-> [@[t] EXCEPT ![u] = 0]],
                   !.cover_letters = {r \in @ : r.user_id # u},
                   !.user_applications =
                       {IF r.cover_letter_id \in gone
                        THEN [r EXCEPT !.cover_letter_id = NoLetter]
                        ELSE r : r \in {x \in @ : x.user_id # u}}]
    /\ UNCHANGED <<db_writes, notDbVars>>

NextDb ==
    \/ \E t \in LeafTables, u \in {User, OtherUser} : leaf_create(t, u)
    \/ \E u \in {User, OtherUser} : cover_letter_create(u)
    \/ \E u \in {User, OtherUser}, cl \in 0..MaxDbWrites :
           user_application_create(u, cl)
    \/ \E u \in {User, OtherUser} : delete(u)

SpecDb == Init /\ [][NextDb]_vars

\* ------------------------------------------------ FormFiller temporary files
notTempVars == <<storeVars, orchVars, fillVars, scanVars, schedVars, cacheVars,
                 formVars, llmVars, dbVars>>

\* safe_file_cleanup (lines 257-267) on path p by filler t, the file found
\* locked (PermissionError) on its first k tries: nothing is tried when no
\* file is there; otherwise os.remove is tried until it succeeds, at most
\* max_attempts times. The function has no await: it runs in one piece.
\* st is [disk, tries, locked]
safe_file_cleanup(st, p, k) ==
    IF st.disk[p] = Absent
    THEN st
    ELSE [disk |-> IF k < cleanup_max_attempts
                   THEN [st.disk EXCEPT ![p] = Absent]
                   ELSE st.disk,
          tries |-> [st.tries EXCEPT ![p] =
                        @ + (IF k < cleanup_max_attempts
                             THEN k + 1 ELSE cleanup_max_attempts)],
          locked |-> IF k > 0 THEN st.locked \cup {p} ELSE st.locked]

\* what safe_file_cleanup can leave behind, the lock held for any number of
\* its tries
CleanupOutcomes(st, p) ==
    {safe_file_cleanup(st, p, k) : k \in 0..cleanup_max_attempts}

RECURSIVE CleanupAll(_, _)
\* `for temp_file in tempfiles: await self.safe_file_cleanup(temp_file)`
\* begun in one of the states sts: the states it can end in
CleanupAll(sts, files) ==
    IF files = <<>>
    THEN sts
    ELSE CleanupAll(UNION {CleanupOutcomes(st, Head(files)) : st \in sts},
                    Tail(files))

StateOf(t) == [disk |-> disk, tries |-> tmp[t].tries, locked |-> tmp[t].locked]

\* the attempt of filler t ends with st left behind
EndAttempt(t, st) ==
    /\ disk' = st.disk
    /\ tmp' = [tmp EXCEPT ![t] = [pc |-> "done", tempfiles |-> tmp[t].tempfiles,
                                  tries |-> st.tries, locked |-> st.locked]]

\* the file fill_missing_files is about to upload
NextFile(t) == files_to_upload(t)[Len(tmp[t].tempfiles) + 1]

\* fill_apply_form lines 579-624: an attempt begins with tempfiles = [] and
\* verify_all_fields reports the files missing; fill_missing_files starts
begin_attempt(t) ==
    /\ tmp[t].pc = "none"
    /\ tmp' = [tmp EXCEPT ![t].pc = "write"]
    /\ UNCHANGED <<disk, notTempVars>>

\* upload_bytes_to_field lines 473-484: a file already at the path is
\* unlinked, then the bytes are written; the selector waits follow
upload_bytes_to_field(t) ==
    /\ tmp[t].pc = "write"
    /\ disk' = [disk EXCEPT ![NextFile(t)] = t]
    /\ tmp' = [tmp EXCEPT ![t].pc = "handoff"]
    /\ UNCHANGED notTempVars

\* lines 486-497 and 457-462: a selector wait times out, or set_input_files
\* finds no file at the path. upload_bytes_to_field removes the file if it
\* is there (one os.remove, which a lock makes fail), fill_missing_files
\* cleans up the files uploaded before and re-raises before fill_apply_form
\* has assigned its tempfiles: the finally block has nothing to delete
upload_raises(t) ==
    /\ tmp[t].pc = "handoff"
    /\ LET p == NextFile(t)
           st0 == StateOf(t)
           removed == [st0 EXCEPT !.disk[p] = Absent, !.tries[p] = @ + 1]
           failed == [st0 EXCEPT !.tries[p] = @ + 1, !.locked = @ \cup {p}]
           after == IF disk[p] = Absent THEN {st0} ELSE {removed, failed}
       IN \E st \in CleanupAll(after, tmp[t].tempfiles) : EndAttempt(t, st)
    /\ UNCHANGED notTempVars

\* line 489: page.set_input_files(selector_file, path) hands the file at the
\* path to the upload control, whatever it holds now
set_input_files(t) ==
    /\ tmp[t].pc = "handoff"
    /\ disk[NextFile(t)] # Absent
    /\ tmp' = [tmp EXCEPT
                 ![t].tempfiles = Append(@, NextFile(t)),
                 ![t].pc = IF Len(tmp[t].tempfiles) + 1 = Len(files_to_upload(t))
                           THEN "recheck" ELSE "write"]
    /\ UNCHANGED <<disk, notTempVars>>

\* lines 631-636: the recheck is clean, the submit button is clicked and the
\* load state awaited
click_submit_button(t) ==
    /\ tmp[t].pc = "recheck"
    /\ tmp' = [tmp EXCEPT ![t].pc = "submitted"]
    /\ UNCHANGED <<disk, notTempVars>>

\* lines 638-651: after the submit every temp file is cleaned up, `break`,
\* and the finally block cleans up every temp file once more
cleanup_after_submit(t) ==
    /\ tmp[t].pc = "submitted"
    /\ \E st \in CleanupAll(CleanupAll({StateOf(t)}, tmp[t].tempfiles),
                             tmp[t].tempfiles) : EndAttempt(t, st)
    /\ UNCHANGED notTempVars

\* cleanup_finally as it would be without the finally block
cleanup_finally_skipped(t) ==
    /\ tmp[t].pc \in {"recheck", "submitted"}
    /\ EndAttempt(t, StateOf(t))
    /\ UNCHANGED notTempVars

\* lines 626-651: the recheck still reports something missing, or a step
\* after fill_missing_files raises: the finally block cleans up
cleanup_finally(t) ==
    /\ tmp[t].pc \in {"recheck", "submitted"}
    /\ \E st \in CleanupAll({StateOf(t)}, tmp[t].tempfiles) : EndAttempt(t, st)
    /\ UNCHANGED notTempVars

NextTemp ==
    \/ \E t \in Fillers : begin_attempt(t)
    \/ \E t \in Fillers : upload_bytes_to_field(t)
    \/ \E t \in Fillers : upload_raises(t)
    \/ \E t \in Fillers : set_input_files(t)
    \/ \E t \in Fillers : click_submit_button(t)
    \/ \E t \in Fillers : cleanup_after_submit(t)
    \/ \E t \in Fillers : cleanup_finally(t)

SpecTemp == Init /\ [][NextTemp]_vars

\* ===================================================================== claims
AllUsers == {User, OtherUser}

\* C1: the applications table holds at most one row for each (user, posting)
\* pair, whatever runs, short-circuits and add_application calls happened.
C1_AtMostOneApplication ==
    \A u \in AllUsers, j \in PostingIds : NumApplications(u, j) <= 1

\* C2: add_job_offer is idempotent on external_id: never two rows for one
\* external_id, and no add_job_offer call raises, also when two callers race.
C2_AddJobOfferIdempotent ==
    /\ \A r1, r2 \in job_offer : r1.external_id = r2.external_id => r1 = r2
    /\ \A s \in Scrapers : pb_pc[s] # "dead"

\* C3: during a scan no more than max_browsers browsers are open at once.
C3_BoundedBrowsers ==
    \A s \in Scrapers : Cardinality(browsers_open[s]) <= max_browsers[s]

\* C4: while process_job_offers runs with max_concurrent = M, at most M
\* postings are inside process_single_job.
C4_BoundedConcurrency ==
    orch_pc = "running" => NumInside <= max_concurrent

\* C4 witness: the permits are all taken while another posting waits
C4_Witness ==
    /\ orch_pc = "running"
    /\ NumInside = max_concurrent
    /\ \E j \in PostingIds : task_pc[j] = "waiting"

\* C5: fill_apply_form makes at most 3 attempts; a call that ends without a
\* marker and without a submit click (the loop ran out, or the last attempt
\* raised) made exactly 3.
C5_AtMostThreeAttempts ==
    \A j \in PostingIds :
        /\ current_attempt[j] <= 3
        /\ fill_outcome[j] \in {"exhausted", "raised"} => current_attempt[j] = 3

\* C5 witness: three attempts, the recheck of the third still reporting
\* something missing, and the call over
C5_Witness ==
    \E j \in PostingIds :
        /\ fill_outcome[j] = "exhausted"
        /\ current_attempt[j] = 3
        /\ last_recheck[j] = "missing"

\* C6: when the recheck of the third attempt still reports something missing,
\* the posting's result is Failed and no Submitted row is written for it.
C6_NotConvergedIsFailed ==
    \A j \in PostingIds :
        (task_pc[j] = "done" /\ fill_outcome[j] = "exhausted"
            /\ last_recheck[j] = "missing")
        => (result[j] = "Failed" /\ written[j] = 0)

\* C7: once the expired marker was seen, the posting and its cover letters
\* are gone from the store and the run writes no applications row for it.
C7_ExpiredDeletesPosting ==
    \A j \in PostingIds :
        fill_outcome[j] = "expired"
        => /\ get_job_offer_by_id(j) = {}
           /\ cover_letters[j] = <<>>
           /\ written[j] = 0

C9_SecondRunSkipsProcessed ==
    \A r \in 2..Len(processed) : processed[r - 1] \cap processed[r] = {}

\* the quick_apply postings without an applications row of this user
Eligible ==
    {r.id : r \in {x \in job_offer : x.quick_apply /\ NumApplications(User, x.id) = 0}}

\* no task of the running call has started yet
JustStarted ==
    /\ orch_pc = "running"
    /\ \A j \in PostingIds : task_pc[j] \in {"none", "waiting"}

\* the last call returned without processing anything
ReturnedAtOnce ==
    /\ orch_pc = "idle"
    /\ processed # <<>>
    /\ processed[Len(processed)] = {}

\* C10: the processed set is the eligible set, cut to the first
\* max_applications; check_and_process_pending_jobs reports the size of the
\* uncut eligible set as pending and total_quick_apply - pending as
\* already_applied.
C10_EligibleSetAndReport ==
    /\ JustStarted =>
         /\ max_applications = None => Range(jobs_to_process) = Eligible
         /\ max_applications # None =>
              /\ Range(jobs_to_process) \subseteq Eligible
              /\ Len(jobs_to_process) = IF Cardinality(Eligible) < max_applications
                                        THEN Cardinality(Eligible)
                                        ELSE max_applications
              /\ \A j \in Range(jobs_to_process), k \in Eligible :
                     k < j => k \in Range(jobs_to_process)
    /\ ReturnedAtOnce => Eligible = {}
    /\ (JustStarted \/ ReturnedAtOnce) =>
         /\ entry = "check_and_process_pending_jobs" =>
              /\ report.pending = Cardinality(Eligible)
              /\ report.already_applied = report.total_quick_apply - report.pending

\* the call of process_job_offers that was processing postings returns
RunReturns == orch_pc = "running" /\ orch_pc' = "idle"

C12_SummaryCounts ==
    [][RunReturns =>
         /\ report'.summary.failed = CountStatus({"Failed"})
         /\ report'.summary.errors = CountStatus({"Error"})]_vars

\* C13: every cycle takes one keyword, and the cycles take the keywords in
\* list order, wrapping to the first after the last: the i-th cycle begun
\* takes keyword ((i - 1) mod |keywords|) + 1.
C13_KeywordRotation ==
    \A i \in 1..Len(cycles) :
        cycles[i].keyword = keywords[((i - 1) % Len(keywords)) + 1]

\* C13 witness: the rotation has wrapped and gone on past the first keyword
C13_Witness ==
    /\ Len(cycles) > Len(keywords) + 1
    /\ cycles[Len(keywords) + 1].keyword = keywords[1]

\* C14: a cycle that began its discovery step has run its apply step by the
\* time it is over, whether or not stop() was called during it.
C14_StopNeverCutsCycle ==
    \A i \in 1..Len(cycles) :
        (i < Len(cycles) \/ sched_pc \notin {"scraping", "apply"})
        => cycles[i].applied

PersistsOver ==
    /\ \A t \in Persists : persist_pc[t] \in {"none", "saved", "failed"}
    /\ \E t \in Persists : persist_pc[t] = "saved"

\* C16: the user never has two cache rows, and when the persists are over the
\* one row holds the complete snapshot of one of them.
C16_OneCacheRow ==
    /\ Len(browser_cache) <= 1
    /\ PersistsOver =>
         /\ Len(browser_cache) = 1
         /\ browser_cache[1] \in Persists

\* C17: a (user, site) pair has at most one apply_forms row, and
\* get_apply_form_by_user_and_site returns the form data written last.
C17_OneApplyProfile ==
    \A u \in {User, OtherUser} :
        /\ Len(FormsOf(u)) <= 1
        /\ ~GetFormRaises(u)
        /\ get_apply_form_by_user_and_site(u) = last_form_data[u]

\* C18: a page that fails does not abort the scan: start_scraping never ends
\* with the page's exception, and when it has returned every page of the
\* result set was scraped.
C18_PageFailureIsolated ==
    \A s \in Scrapers :
        /\ scan_pc[s] # "raised"
        /\ scan_pc[s] = "returned" =>
             \A p \in 1..max_page[s] :
                 page_pc[s][p] \in {"closed", "closed_empty"}

\* the scan is over and nothing is left in its buffer
ScanFinished(s) ==
    /\ scan_pc[s] \in {"returned", "raised"}
    /\ \A p \in Pages : page_pc[s][p] \notin {"created", "open", "buffered", "errored"}
    /\ job_buffer[s] = <<>>
    /\ pb_pc[s] = "idle"

\* C19: once the scan is finished and the buffer is empty, the scan's
\* process_buffer task ends.
C19_WorkerExits ==
    \A s \in Scrapers :
        ScanFinished(s) ~> (pb_pc[s] \notin {"idle", "check", "insert"})

\* the external ids the pages of scraper s collected
Collected(s) ==
    UNION {Range(PageItems(p)) : p \in {q \in Pages : page_pc[s][q] = "closed"}}

\* C20: when the scan is finished and its buffer drained, every posting the
\* pages collected has exactly one job_offer row.
C20_AllPostingsPersisted ==
    \A s \in Scrapers :
        ScanFinished(s) =>
            \A e \in Collected(s) :
                Cardinality(get_job_offer_by_external_id(e)) = 1

\* C29: a stop() made between create_task and the first statement of run() is
\* honoured: that run() begins no keyword cycle.
C29_EarlyStopNotLost ==
    early_stop => sched_pc \in {"created", "loop", "returned"}

\* C30: when start_scraping has returned, every posting the pages buffered
\* has been handled by add_job_offer: the buffer is empty and no popped item
\* is still between its lookup and its insert.
C30_BufferDrainedAtReturn ==
    \A s \in Scrapers :
        scan_pc[s] = "returned" =>
            /\ job_buffer[s] = <<>>
            /\ pb_pc[s] \notin {"check", "insert"}

\* C22: when the login of the last attempt failed, fill_apply_form does not
\* return normally: the posting's result is not Success and the run writes no
\* Submitted row for it.
C22_LoginFailureIsHard ==
    \A j \in PostingIds :
        (login_failed[j] /\ task_pc[j] \in {"add_application", "done"})
        => /\ task_pc[j] = "done"
           /\ result[j] # "Success"
           /\ written[j] = 0

\* C24: a submit click is made only in an attempt whose recheck came back
\* clean, and it is the only submit click of the fill_apply_form call.
C24_OneSubmitAfterCleanRecheck ==
    [][\A j \in PostingIds :
         clicks'[j] > clicks[j]
         => /\ last_recheck[j] = "clean"
            /\ task_pc[j] = "fill_submit"
            /\ clicks'[j] = 1]_vars

\* C28: while a posting is being filled in, the PDF that fill_apply_form
\* uploads for it (the pdf_data of the row it reads, the first of the pair)
\* was rendered from the text generated in the current run.
C28_PdfFromThisRun ==
    \A j \in PostingIds :
        task_pc[j] \in {"fill_prelude", "fill_loop", "fill_check",
                        "fill_recheck", "fill_submit"}
        => /\ cover_letters[j] # <<>>
           /\ cover_letters[j][1].pdf_data = run

\* C26: create_completion_async makes at most max_retries attempts, and every
\* call ends: it returns a result or raises.
C26_CompletionTerminates ==
    /\ [](\A c \in Callers : creates[c] <= llm_max_retries[c])
    /\ \A c \in Callers :
           (llm_pc[c] # "none") ~> (llm_pc[c] \in {"returned", "raised"})

\* the rows user v owns in database d
OwnedRows(d, v) ==
    [leaf |-> [t \in LeafTables |-> d.leaf[t][v]],
     cover_letters |-> {r \in d.cover_letters : r.user_id = v},
     user_applications |-> {r \in d.user_applications : r.user_id = v}]

NoRows ==
    [leaf |-> [t \in LeafTables |-> 0],
     cover_letters |-> {},
     user_applications |-> {}]

\* user u is deleted by this step
Deletes(u) == u \in db.users /\ u \notin db'.users

Detached(d, v, u) ==
    {IF r.cover_letter_id \in {c.id : c \in {x \in d.cover_letters : x.user_id = u}}
     THEN [r EXCEPT !.cover_letter_id = NoLetter]
     ELSE r : r \in {x \in d.user_applications : x.user_id = v}}

NoPersistRunning ==
    \A t \in Persists : persist_pc[t] \in {"none", "saved", "failed"}

\* C23: with no persist under way, a context acquired for the user is loaded
\* with the state held by the user's browser_cache row, and starts
\* unauthenticated when the user has no row.
C23_ContextFromLatestBlob ==
    NoPersistRunning =>
        /\ browser_cache = <<>> => get_browser_context = NoFile
        /\ Len(browser_cache) = 1 => get_browser_context = browser_cache[1]

C27_TempFileNotTouchedByOthers ==
    \A t \in Fillers :
        tmp[t].pc = "handoff" => disk[NextFile(t)] = t

====
